---- MODULE Spec2Model ----
(***************************************************************************)
(* The system catalog of the storage engine (terrier::catalog::Catalog):   *)
(* the identifier allocator, the registry maps, the bootstrap sequence,    *)
(* database creation and deletion, registry lookup and the reclamation     *)
(* pass DestroyDB, as written in src/src/catalog/catalog.cpp.              *)
(***************************************************************************)
EXTENDS Integers, Sequences, FiniteSets, TLC

(***************************************************************************)
(* Program constants.                                                      *)
(***************************************************************************)
\* catalog_defs.h: the first identifier handed out (oid_(START_OID)).
START_OID == 1001
\* catalog_defs.h: the identifier of the default database "terrier".
DEFAULT_DATABASE_OID == 828
\* InitializerForProjectedColumns(col_oids, 100): rows one Scan materializes.
ScanMaxTuples == 100

(***************************************************************************)
(* Bounds of the model.                                                    *)
(***************************************************************************)
\* oid_ up to which the operations after bootstrap allocate (bootstrap ends at 1045)
MaxOid == 1046
\* calls of DestroyDB
MaxDestroy == 2
\* calls of GetNextOid each concurrent caller makes (SpecRace)
MaxCalls == 2
\* length of a drawn list of declared-but-unused columns (SpecFill)
MaxCols == 3
\* oid_ up to which user relations are created in SpecScan: 96 of them, which
\* with the 5 rows of the bootstrap make 101 rows of pg_class
MaxScanOid == 1141

(***************************************************************************)
(* type::Value and type::ValueFactory.                                     *)
(***************************************************************************)
GetIntegerValue(n) == [type_id |-> "INTEGER", null |-> FALSE, i |-> n, s |-> ""]
GetBigIntValue(n) == [type_id |-> "BIGINT", null |-> FALSE, i |-> n, s |-> ""]
GetVarcharValue(str) == [type_id |-> "VARCHAR", null |-> FALSE, i |-> 0, s |-> str]
GetBooleanValue(b) == [type_id |-> "BOOLEAN", null |-> FALSE, i |-> IF b THEN 1 ELSE 0, s |-> ""]
GetNullValue(t) == [type_id |-> t, null |-> TRUE, i |-> 0, s |-> ""]

SchemaCol(n, t) == [col_name |-> n, type_id |-> t]

\* The column types a schema may declare (type::TypeId), as far as drawn here.
TypeIds == {"BOOLEAN", "INTEGER", "VARCHAR", "SMALLINT"}

(***************************************************************************)
(* Static schemas of the handles.                                          *)
(***************************************************************************)
DatabaseSchemaCols == <<SchemaCol("oid", "INTEGER"), SchemaCol("datname", "VARCHAR")>>
DatabaseUnusedNames ==
  <<"datdba", "encoding", "datcollate", "datctype", "datistemplate", "datallowconn", "datconnlimit">>
DatabaseUnusedTypes ==
  <<"INTEGER", "INTEGER", "VARCHAR", "VARCHAR", "BOOLEAN", "BOOLEAN", "INTEGER">>
pg_tablespace_unused_cols_ ==
  <<SchemaCol("spcowner", "INTEGER"), SchemaCol("spcacl", "VARCHAR"), SchemaCol("spcoptions", "VARCHAR")>>
NamespaceSchemaCols == <<SchemaCol("oid", "INTEGER"), SchemaCol("nspname", "VARCHAR")>>
NamespaceUnusedCols == <<SchemaCol("nspowner", "INTEGER"), SchemaCol("nspacl", "VARCHAR")>>
ClassSchemaCols ==
  <<SchemaCol("__ptr", "BIGINT"), SchemaCol("oid", "INTEGER"), SchemaCol("relname", "VARCHAR"),
    SchemaCol("relnamespace", "INTEGER"), SchemaCol("reltablespace", "INTEGER")>>
AttrDefSchemaCols ==
  <<SchemaCol("oid", "INTEGER"), SchemaCol("adrelid", "INTEGER"), SchemaCol("adnum", "INTEGER"),
    SchemaCol("adbin", "VARCHAR"), SchemaCol("adsrc", "VARCHAR")>>
PGAttributeCols ==
  <<SchemaCol("oid", "INTEGER"), SchemaCol("attrelid", "INTEGER"), SchemaCol("attname", "VARCHAR"),
    SchemaCol("atttypid", "INTEGER"), SchemaCol("attlen", "INTEGER"), SchemaCol("attnum", "INTEGER")>>
PGTablespaceCols == <<SchemaCol("oid", "INTEGER"), SchemaCol("spcname", "VARCHAR")>>

VARIABLES
  pc,                   \* position of the constructor / state of the process
  oid_,                 \* Catalog::oid_
  returned,             \* history: the values GetNextOid has returned, in order
  tables,               \* the SqlTableRW objects of the catalog, by address
  pg_database_,         \* Catalog::pg_database_ (0: not yet created)
  pg_tablespace_,       \* Catalog::pg_tablespace_ (0: not yet created)
  map_,                 \* Catalog::map_      db_oid -> table_oid -> relation
  name_map_,            \* Catalog::name_map_ db_oid -> name -> table_oid
  unused_schema_cols_,  \* DatabaseHandle::unused_schema_cols_ (the column types)
  user_tables,          \* user relation objects: address -> number of deletes
  txns,                 \* transactions the catalog began, in order
  lastOp,               \* the last operation completed and its outcome
  caller,               \* the concurrent callers of GetNextOid: position, value read, values received
  serialized,           \* whether the callers hold a mutex around GetNextOid
  mutex,                \* the caller holding that mutex (0: free)
  client_txn            \* the transaction a client passes to CreateDatabase / DeleteDatabase

\* the callers' part of the state
callVars == <<caller, serialized, mutex, client_txn>>

vars == <<pc, oid_, returned, tables, pg_database_, pg_tablespace_, map_, name_map_,
          unused_schema_cols_, user_tables, txns, lastOp, caller, serialized, mutex, client_txn>>

(***************************************************************************)
(* Maps (std::unordered_map).                                              *)
(***************************************************************************)
EmptyMap == <<>>
Put(m, k, v) == [x \in (DOMAIN m) \cup {k} |-> IF x = k THEN v ELSE m[x]]
\* an erase that removes nothing
Erase_Nothing(m, k) == m

Erase(m, k) == [x \in (DOMAIN m) \ {k} |-> m[x]]
\* m[a][k] = v with operator[]: the inner map is default-constructed if absent
PutIn(m, a, k, v) == Put(m, a, Put(IF a \in DOMAIN m THEN m[a] ELSE EmptyMap, k, v))

(***************************************************************************)
(* The identifier allocator.                                               *)
(***************************************************************************)
GetNextOid_NoIncrement(c) == [ret |-> c, next |-> c]

\* uint32_t Catalog::GetNextOid() { return oid_++; }
\* ret: the value returned, next: oid_ after the call.  oid_ is a uint32_t and
\* wraps at 2^32; every value reached here stays below MaxOid, far from it.
GetNextOid(c) == [ret |-> c, next |-> c + 1]

\* n successive calls of GetNextOid from counter value c
RECURSIVE NextOids(_, _)
NextOids(c, n) ==
  IF n = 0 THEN [rets |-> <<>>, next |-> c]
  ELSE LET g == GetNextOid(c)
           r == NextOids(g.next, n - 1)
       IN [rets |-> <<g.ret>> \o r.rets, next |-> r.next]

(***************************************************************************)
(* Rows and relations.                                                     *)
(***************************************************************************)
\* SqlTableRW after DefineColumn for each column and Create()
NewTable(cols, oids) ==
  [cols |-> [i \in 1..Len(cols) |->
               [col_name |-> cols[i].col_name, type_id |-> cols[i].type_id, oid |-> oids[i]]],
   rows |-> <<>>]

InsertRow(tbls, t, row) == [tbls EXCEPT ![t].rows = Append(@, row)]

\* index of the first row of rows whose column c holds integer n (0: none)
FindByInt(rows, c, n) ==
  LET S == {i \in 1..Len(rows) : rows[i][c].i = n}
  IN IF S = {} THEN 0 ELSE CHOOSE i \in S : \A j \in S : i <= j

\* index of the first row of rows whose column c holds string str (0: none)
FindByName(rows, c, str) ==
  LET S == {i \in 1..Len(rows) : rows[i][c].s = str}
  IN IF S = {} THEN 0 ELSE CHOOSE i \in S : \A j \in S : i <= j

RemoveAt(rows, k) == [i \in 1..(Len(rows) - 1) |-> IF i < k THEN rows[i] ELSE rows[i + 1]]

\* DatabaseHandle::unused_schema_cols_ as SchemaCols
DatabaseUnusedCols ==
  [i \in 1..Len(unused_schema_cols_) |-> SchemaCol(DatabaseUnusedNames[i], unused_schema_cols_[i])]

(***************************************************************************)
(* Catalog::SetUnusedColumns                                               *)
(***************************************************************************)
RECURSIVE SetUnusedColumns_SkipUnknown(_, _)
SetUnusedColumns_SkipUnknown(vec, cols) ==
  IF cols = <<>> THEN [ok |-> TRUE, vec |-> vec]
  ELSE LET t == Head(cols).type_id IN
       IF t = "BOOLEAN" THEN SetUnusedColumns_SkipUnknown(Append(vec, GetBooleanValue(FALSE)), Tail(cols))
       ELSE IF t = "INTEGER" THEN SetUnusedColumns_SkipUnknown(Append(vec, GetIntegerValue(0)), Tail(cols))
       ELSE IF t = "VARCHAR" THEN SetUnusedColumns_SkipUnknown(Append(vec, GetNullValue("VARCHAR")), Tail(cols))
       ELSE SetUnusedColumns_SkipUnknown(vec, Tail(cols))

\* ok = FALSE: NOT_IMPLEMENTED_EXCEPTION thrown; vec is the caller's vector as
\* the loop left it.
RECURSIVE SetUnusedColumns(_, _)
SetUnusedColumns(vec, cols) ==
  IF cols = <<>> THEN [ok |-> TRUE, vec |-> vec]
  ELSE LET t == Head(cols).type_id IN
       IF t = "BOOLEAN" THEN SetUnusedColumns(Append(vec, GetBooleanValue(FALSE)), Tail(cols))
       ELSE IF t = "INTEGER" THEN SetUnusedColumns(Append(vec, GetIntegerValue(0)), Tail(cols))
       ELSE IF t = "VARCHAR" THEN SetUnusedColumns(Append(vec, GetNullValue("VARCHAR")), Tail(cols))
       ELSE [ok |-> FALSE, vec |-> vec]

(***************************************************************************)
(* Registry lookup.                                                        *)
(***************************************************************************)
\* map_.at(db_oid).at(table_oid) with operator[] in place of at(): the missing
\* slots are default-constructed and a null relation is returned
GetDatabaseCatalogById_Subscript(mp, db_oid, table_oid) ==
  IF db_oid \in DOMAIN mp /\ table_oid \in DOMAIN mp[db_oid]
  THEN [status |-> "ok", rel |-> mp[db_oid][table_oid], mp |-> mp]
  ELSE [status |-> "ok", rel |-> 0, mp |-> PutIn(mp, db_oid, table_oid, 0)]

\* return map_.at(db_oid).at(table_oid);   (std::out_of_range if a key is absent)
\* mp in the result is map_ as the call leaves it
GetDatabaseCatalogById(mp, db_oid, table_oid) ==
  IF db_oid \in DOMAIN mp /\ table_oid \in DOMAIN mp[db_oid]
  THEN [status |-> "ok", rel |-> mp[db_oid][table_oid], mp |-> mp]
  ELSE [status |-> "out_of_range", rel |-> 0, mp |-> mp]

\* return GetDatabaseCatalog(db_oid, name_map_.at(db_oid).at(table_name));
GetDatabaseCatalogByName(mp, nm, db_oid, table_name) ==
  IF db_oid \in DOMAIN nm /\ table_name \in DOMAIN nm[db_oid]
  THEN GetDatabaseCatalogById(mp, db_oid, nm[db_oid][table_name])
  ELSE [status |-> "out_of_range", rel |-> 0, mp |-> mp]

(***************************************************************************)
(* Handles: entry lookup by name over a relation's rows.                   *)
(***************************************************************************)
\* DatabaseHandle::GetDatabaseEntry(txn, name): row index in pg_database, 0 = NULL
GetDatabaseEntry(tbls, db_name) == FindByName(tbls[pg_database_].rows, 2, db_name)

\* TablespaceHandle::GetTablespaceEntry(txn, name): row index, 0 = NULL
GetTablespaceEntry(tbls, name) == FindByName(tbls[pg_tablespace_].rows, 2, name)

\* NamespaceHandle::GetNamespaceEntry(txn, name) on relation ns: row index, 0 = NULL
GetNamespaceEntry(tbls, ns, name) == FindByName(tbls[ns].rows, 2, name)

\* NamespaceHandle::GetNamespaceEntry(txn, oid) on relation ns: row index, 0 = NULL
GetNamespaceEntryByOid(tbls, ns, oid) == FindByInt(tbls[ns].rows, 1, oid)

\* DatabaseHandle::GetDatabaseEntry(txn, oid): row index in pg_database, 0 = NULL
GetDatabaseEntryByOid(tbls, oid) == FindByInt(tbls[pg_database_].rows, 1, oid)

\* TablespaceHandle::GetTablespaceEntry(txn, oid): row index, 0 = NULL
GetTablespaceEntryByOid(tbls, oid) == FindByInt(tbls[pg_tablespace_].rows, 1, oid)

\* ClassHandle::GetClassEntry(txn, oid) on relation cls: row index, 0 = NULL
GetClassEntryByOid(tbls, cls, oid) == FindByInt(tbls[cls].rows, 2, oid)

\* lastOp: the operation, its arguments (name, db, tid), its outcome (status, rel),
\* and whether it directly follows a successful CreateDatabase of the same name
NoOp ==
  [op |-> "none", name |-> "", db |-> 0, tid |-> 0, status |-> "", rel |-> 0,
   after_create |-> FALSE]

Op(o, n, d, t, st, r) ==
  [op |-> o, name |-> n, db |-> d, tid |-> t, status |-> st, rel |-> r,
   after_create |-> (lastOp.op = "CreateDatabase" /\ lastOp.status = "ok" /\ lastOp.name = n)]

\* threads that call GetNextOid on the constructed catalog
Callers == {1, 2}

IdleCallers == [t \in Callers |-> [pc |-> "idle", tmp |-> 0, got |-> <<>>]]

\* no client transaction has been begun; undo holds the rows of pg_database as
\* they were when the transaction began
NoClientTxn == [state |-> "none", undo |-> <<>>]

Init ==
  /\ pc = "BeginTransaction"
  /\ oid_ = START_OID
  /\ returned = <<>>
  /\ tables = EmptyMap
  /\ pg_database_ = 0
  /\ pg_tablespace_ = 0
  /\ map_ = EmptyMap
  /\ name_map_ = EmptyMap
  /\ unused_schema_cols_ = DatabaseUnusedTypes
  /\ user_tables = EmptyMap
  /\ txns = <<>>
  /\ lastOp = NoOp
  /\ caller = IdleCallers
  /\ serialized = FALSE
  /\ mutex = 0
  /\ client_txn = NoClientTxn


(***************************************************************************)
(* Handle operations used by the bootstrap.                                *)
(***************************************************************************)
\* <Handle>::Create(txn, catalog, db_oid, name): a relation with a fresh table
\* oid and fresh column oids, registered in both maps of db_oid.
HandleCreate(tbls, mp, nm, c, db_oid, name, cols) ==
  LET a == NextOids(c, 1 + Len(cols))
      t == a.rets[1]
  IN [tbls |-> Put(tbls, t, NewTable(cols, Tail(a.rets))),
      mp |-> PutIn(mp, db_oid, t, t),
      nm |-> PutIn(nm, db_oid, name, t),
      alloc |-> a,
      oid |-> t]

\* NamespaceHandle::AddEntry(txn, name): the row of a namespace with identifier oid
NamespaceRow(oid, name) ==
  SetUnusedColumns(<<GetIntegerValue(oid), GetVarcharValue(name)>>, NamespaceUnusedCols).vec

\* ClassHandle::AddEntry(txn, ptr, oid, name, ns_oid, ts_oid)
ClassRow(ptr, oid, name, ns_oid, ts_oid) ==
  <<GetBigIntValue(ptr), GetIntegerValue(oid), GetVarcharValue(name),
    GetIntegerValue(ns_oid), GetIntegerValue(ts_oid)>>

\* AddColumnsToPGAttribute that writes the column's identifier as attrelid too
AddColumnsToPGAttribute_ColumnAsRelid(tbls, mp, nm, db_oid, t) ==
  LET pg_attribute == mp[db_oid][nm[db_oid]["pg_attribute"]]
      cols == tbls[t].cols
      new == [i \in 1..Len(cols) |->
                <<GetIntegerValue(cols[i].oid), GetIntegerValue(cols[i].oid),
                  GetVarcharValue(cols[i].col_name),
                  GetIntegerValue(0), GetIntegerValue(0), GetIntegerValue(0)>>]
  IN [tbls EXCEPT ![pg_attribute].rows = @ \o new]

\* Catalog::AddColumnsToPGAttribute(txn, db_oid, table): one row per column of
\* table t into the pg_attribute of db_oid
AddColumnsToPGAttribute(tbls, mp, nm, db_oid, t) ==
  LET pg_attribute == mp[db_oid][nm[db_oid]["pg_attribute"]]
      cols == tbls[t].cols
      new == [i \in 1..Len(cols) |->
                <<GetIntegerValue(cols[i].oid), GetIntegerValue(t), GetVarcharValue(cols[i].col_name),
                  GetIntegerValue(0), GetIntegerValue(0), GetIntegerValue(0)>>]
  IN [tbls EXCEPT ![pg_attribute].rows = @ \o new]

(***************************************************************************)
(* Catalog::Catalog -> Catalog::Bootstrap, one action per call it makes.   *)
(***************************************************************************)
\* txn_manager_->BeginTransaction()
BeginBootstrap ==
  /\ pc = "BeginTransaction"
  /\ txns' = Append(txns, [by |-> "Bootstrap", state |-> "active"])
  /\ pc' = "CreatePGDatabase"
  /\ UNCHANGED <<oid_, returned, tables, pg_database_, pg_tablespace_, map_, name_map_,
                 unused_schema_cols_, user_tables, lastOp>>

\* CreatePGDatabase(table_oid_t(GetNextOid()))
CreatePGDatabase ==
  /\ pc = "CreatePGDatabase"
  /\ LET cols == DatabaseSchemaCols \o DatabaseUnusedCols
         a == NextOids(oid_, 1 + Len(cols))
         t == a.rets[1]
     IN /\ tables' = Put(tables, t, NewTable(cols, Tail(a.rets)))
        /\ pg_database_' = t
        /\ oid_' = a.next
        /\ returned' = returned \o a.rets
  /\ map_' = Put(map_, DEFAULT_DATABASE_OID, EmptyMap)
  /\ pc' = "PopulatePGDatabase"
  /\ UNCHANGED <<pg_tablespace_, name_map_, unused_schema_cols_, user_tables, txns, lastOp>>

\* PopulatePGDatabase that inserts no row
PopulatePGDatabase_NoRow ==
  /\ pc = "PopulatePGDatabase"
  /\ pc' = "CreatePGTablespace"
  /\ UNCHANGED <<oid_, returned, tables, pg_database_, pg_tablespace_, map_, name_map_,
                 unused_schema_cols_, user_tables, txns, lastOp>>

\* PopulatePGDatabase(txn); an exception of SetUnusedColumns leaves the constructor
PopulatePGDatabase ==
  /\ pc = "PopulatePGDatabase"
  /\ LET f == SetUnusedColumns(<<GetIntegerValue(DEFAULT_DATABASE_OID), GetVarcharValue("terrier")>>,
                               DatabaseUnusedCols)
     IN IF f.ok
        THEN /\ tables' = InsertRow(tables, pg_database_, f.vec)
             /\ pc' = "CreatePGTablespace"
             /\ lastOp' = lastOp
        ELSE /\ tables' = tables
             /\ pc' = "failed"
             /\ lastOp' = Op("Bootstrap", "", 0, 0, "NOT_IMPLEMENTED_EXCEPTION", 0)
  /\ UNCHANGED <<oid_, returned, pg_database_, pg_tablespace_, map_, name_map_,
                 unused_schema_cols_, user_tables, txns>>

\* CreatePGTablespace(table_oid_t(GetNextOid()))
CreatePGTablespace ==
  /\ pc = "CreatePGTablespace"
  /\ LET cols == PGTablespaceCols \o pg_tablespace_unused_cols_
         a == NextOids(oid_, 1 + Len(cols))
         t == a.rets[1]
     IN /\ tables' = Put(tables, t, NewTable(cols, Tail(a.rets)))
        /\ pg_tablespace_' = t
        /\ oid_' = a.next
        /\ returned' = returned \o a.rets
  /\ pc' = "PopulatePGTablespace"
  /\ UNCHANGED <<pg_database_, map_, name_map_, unused_schema_cols_, user_tables, txns, lastOp>>

PopulatePGTablespace_OneOid ==
  /\ pc = "PopulatePGTablespace"
  /\ LET a == NextOids(oid_, 1)
         row1 == SetUnusedColumns(<<GetIntegerValue(a.rets[1]), GetVarcharValue("pg_global")>>,
                                  pg_tablespace_unused_cols_).vec
         row2 == SetUnusedColumns(<<GetIntegerValue(a.rets[1]), GetVarcharValue("pg_default")>>,
                                  pg_tablespace_unused_cols_).vec
     IN /\ tables' = InsertRow(InsertRow(tables, pg_tablespace_, row1), pg_tablespace_, row2)
        /\ oid_' = a.next
        /\ returned' = returned \o a.rets
  /\ pc' = "BootstrapDatabase"
  /\ UNCHANGED <<pg_database_, pg_tablespace_, map_, name_map_, unused_schema_cols_,
                 user_tables, txns, lastOp>>

\* PopulatePGTablespace(txn)
PopulatePGTablespace ==
  /\ pc = "PopulatePGTablespace"
  /\ LET a == NextOids(oid_, 2)
         pg_global_oid == a.rets[1]
         pg_default_oid == a.rets[2]
         row1 == SetUnusedColumns(<<GetIntegerValue(pg_global_oid), GetVarcharValue("pg_global")>>,
                                  pg_tablespace_unused_cols_).vec
         row2 == SetUnusedColumns(<<GetIntegerValue(pg_default_oid), GetVarcharValue("pg_default")>>,
                                  pg_tablespace_unused_cols_).vec
     IN /\ tables' = InsertRow(InsertRow(tables, pg_tablespace_, row1), pg_tablespace_, row2)
        /\ oid_' = a.next
        /\ returned' = returned \o a.rets
  /\ pc' = "BootstrapDatabase"
  /\ UNCHANGED <<pg_database_, pg_tablespace_, map_, name_map_, unused_schema_cols_,
                 user_tables, txns, lastOp>>

\* BootstrapDatabase without its two name_map_ registrations
BootstrapDatabase_NoNames ==
  /\ pc = "BootstrapDatabase"
  /\ map_' = PutIn(PutIn(map_, DEFAULT_DATABASE_OID, pg_database_, pg_database_),
                   DEFAULT_DATABASE_OID, pg_tablespace_, pg_tablespace_)
  /\ pc' = "CreatePGAttribute"
  /\ UNCHANGED <<oid_, returned, tables, pg_database_, pg_tablespace_, name_map_,
                 unused_schema_cols_, user_tables, txns, lastOp>>

\* BootstrapDatabase(txn, DEFAULT_DATABASE_OID): the four registrations
BootstrapDatabase ==
  /\ pc = "BootstrapDatabase"
  /\ map_' = PutIn(PutIn(map_, DEFAULT_DATABASE_OID, pg_database_, pg_database_),
                   DEFAULT_DATABASE_OID, pg_tablespace_, pg_tablespace_)
  /\ name_map_' = PutIn(PutIn(name_map_, DEFAULT_DATABASE_OID, "pg_database", pg_database_),
                        DEFAULT_DATABASE_OID, "pg_tablespace", pg_tablespace_)
  /\ pc' = "CreatePGAttribute"
  /\ UNCHANGED <<oid_, returned, tables, pg_database_, pg_tablespace_, unused_schema_cols_,
                 user_tables, txns, lastOp>>

\* CreatePGAttribute(txn, db_oid)
CreatePGAttribute ==
  /\ pc = "CreatePGAttribute"
  /\ LET db == DEFAULT_DATABASE_OID
         a == NextOids(oid_, 1 + 6)
         pg_attribute_oid == a.rets[1]
         mp == PutIn(map_, db, pg_attribute_oid, pg_attribute_oid)
         nm == PutIn(name_map_, db, "pg_attribute", pg_attribute_oid)
         t0 == Put(tables, pg_attribute_oid, NewTable(PGAttributeCols, Tail(a.rets)))
         t1 == AddColumnsToPGAttribute(t0, mp, nm, db, pg_attribute_oid)
         t2 == AddColumnsToPGAttribute(t1, mp, nm, db, mp[db][nm[db]["pg_database"]])
         t3 == AddColumnsToPGAttribute(t2, mp, nm, db, mp[db][nm[db]["pg_tablespace"]])
     IN /\ tables' = t3
        /\ map_' = mp
        /\ name_map_' = nm
        /\ oid_' = a.next
        /\ returned' = returned \o a.rets
  /\ pc' = "CreatePGNameSpace"
  /\ UNCHANGED <<pg_database_, pg_tablespace_, unused_schema_cols_, user_tables, txns, lastOp>>

CreatePGNameSpace_OnlyCatalog ==
  /\ pc = "CreatePGNameSpace"
  /\ LET db == DEFAULT_DATABASE_OID
         h == HandleCreate(tables, map_, name_map_, oid_, db, "pg_namespace",
                           NamespaceSchemaCols \o NamespaceUnusedCols)
         a == NextOids(h.alloc.next, 1)
     IN /\ tables' = InsertRow(h.tbls, h.oid, NamespaceRow(a.rets[1], "pg_catalog"))
        /\ map_' = h.mp
        /\ name_map_' = h.nm
        /\ oid_' = a.next
        /\ returned' = returned \o h.alloc.rets \o a.rets
  /\ pc' = "CreatePGClass"
  /\ UNCHANGED <<pg_database_, pg_tablespace_, unused_schema_cols_, user_tables, txns, lastOp>>

\* CreatePGNameSpace whose second entry reuses the identifier of the first
CreatePGNameSpace_SameOid ==
  /\ pc = "CreatePGNameSpace"
  /\ LET db == DEFAULT_DATABASE_OID
         h == HandleCreate(tables, map_, name_map_, oid_, db, "pg_namespace",
                           NamespaceSchemaCols \o NamespaceUnusedCols)
         a == NextOids(h.alloc.next, 2)
         t1 == InsertRow(h.tbls, h.oid, NamespaceRow(a.rets[1], "pg_catalog"))
         t2 == InsertRow(t1, h.oid, NamespaceRow(a.rets[1], "public"))
     IN /\ tables' = t2
        /\ map_' = h.mp
        /\ name_map_' = h.nm
        /\ oid_' = a.next
        /\ returned' = returned \o h.alloc.rets \o a.rets
  /\ pc' = "CreatePGClass"
  /\ UNCHANGED <<pg_database_, pg_tablespace_, unused_schema_cols_, user_tables, txns, lastOp>>

\* CreatePGNameSpace(txn, db_oid)
CreatePGNameSpace ==
  /\ pc = "CreatePGNameSpace"
  /\ LET db == DEFAULT_DATABASE_OID
         h == HandleCreate(tables, map_, name_map_, oid_, db, "pg_namespace",
                           NamespaceSchemaCols \o NamespaceUnusedCols)
         a == NextOids(h.alloc.next, 2)
         t1 == InsertRow(h.tbls, h.oid, NamespaceRow(a.rets[1], "pg_catalog"))
         t2 == InsertRow(t1, h.oid, NamespaceRow(a.rets[2], "public"))
     IN /\ tables' = t2
        /\ map_' = h.mp
        /\ name_map_' = h.nm
        /\ oid_' = a.next
        /\ returned' = returned \o h.alloc.rets \o a.rets
  /\ pc' = "CreatePGClass"
  /\ UNCHANGED <<pg_database_, pg_tablespace_, unused_schema_cols_, user_tables, txns, lastOp>>

\* the names CreatePGClass describes in pg_class, in order, with the tablespace of each
PGClassEntries_Four ==
  <<[name |-> "pg_database", ts |-> "pg_global"], [name |-> "pg_tablespace", ts |-> "pg_global"],
    [name |-> "pg_namespace", ts |-> "pg_default"], [name |-> "pg_class", ts |-> "pg_default"]>>

\* every relation described with the pg_default tablespace
PGClassEntries_AllDefault ==
  <<[name |-> "pg_database", ts |-> "pg_default"], [name |-> "pg_tablespace", ts |-> "pg_default"],
    [name |-> "pg_namespace", ts |-> "pg_default"], [name |-> "pg_class", ts |-> "pg_default"],
    [name |-> "pg_attribute", ts |-> "pg_default"]>>

PGClassEntries ==
  <<[name |-> "pg_database", ts |-> "pg_global"], [name |-> "pg_tablespace", ts |-> "pg_global"],
    [name |-> "pg_namespace", ts |-> "pg_default"], [name |-> "pg_class", ts |-> "pg_default"],
    [name |-> "pg_attribute", ts |-> "pg_default"]>>

\* CreatePGClass(txn, db_oid)
CreatePGClass ==
  /\ pc = "CreatePGClass"
  /\ LET db == DEFAULT_DATABASE_OID
         h == HandleCreate(tables, map_, name_map_, oid_, db, "pg_class", ClassSchemaCols)
         ns == h.mp[db][h.nm[db]["pg_namespace"]]
         pg_catalog_namespace_oid ==
           h.tbls[ns].rows[GetNamespaceEntry(h.tbls, ns, "pg_catalog")][1].i
         ts_oid(n) == h.tbls[pg_tablespace_].rows[GetTablespaceEntry(h.tbls, n)][1].i
         new == [k \in 1..Len(PGClassEntries) |->
                   LET rel == h.mp[db][h.nm[db][PGClassEntries[k].name]]
                   IN ClassRow(rel, rel, PGClassEntries[k].name, pg_catalog_namespace_oid,
                               ts_oid(PGClassEntries[k].ts))]
     IN /\ tables' = [h.tbls EXCEPT ![h.oid].rows = @ \o new]
        /\ map_' = h.mp
        /\ name_map_' = h.nm
        /\ oid_' = h.alloc.next
        /\ returned' = returned \o h.alloc.rets
  /\ pc' = "AttrDefCreate"
  /\ UNCHANGED <<pg_database_, pg_tablespace_, unused_schema_cols_, user_tables, txns, lastOp>>

\* AttrDefHandle::Create(txn, this, db_oid, "pg_attrdef")
AttrDefCreate ==
  /\ pc = "AttrDefCreate"
  /\ LET h == HandleCreate(tables, map_, name_map_, oid_, DEFAULT_DATABASE_OID, "pg_attrdef",
                           AttrDefSchemaCols)
     IN /\ tables' = h.tbls
        /\ map_' = h.mp
        /\ name_map_' = h.nm
        /\ oid_' = h.alloc.next
        /\ returned' = returned \o h.alloc.rets
  /\ pc' = "Commit"
  /\ UNCHANGED <<pg_database_, pg_tablespace_, unused_schema_cols_, user_tables, txns, lastOp>>

\* txn_manager_->Commit(txn, BootstrapCallback, nullptr); delete txn;
CommitBootstrap ==
  /\ pc = "Commit"
  /\ txns' = [txns EXCEPT ![1].state = "committed"]
  /\ pc' = "ready"
  /\ lastOp' = Op("Bootstrap", "", 0, 0, "ok", 0)
  /\ UNCHANGED <<oid_, returned, tables, pg_database_, pg_tablespace_, map_, name_map_,
                 unused_schema_cols_, user_tables>>

Bootstrap ==
  \/ BeginBootstrap
  \/ CreatePGDatabase
  \/ PopulatePGDatabase
  \/ CreatePGTablespace
  \/ PopulatePGTablespace
  \/ BootstrapDatabase
  \/ CreatePGAttribute
  \/ CreatePGNameSpace
  \/ CreatePGClass
  \/ AttrDefCreate
  \/ CommitBootstrap


(***************************************************************************)
(* Operations of the constructed catalog.                                  *)
(***************************************************************************)
\* names a caller passes to CreateDatabase / DeleteDatabase
DbNames == {"terrier", "foo"}

\* AddEntryToPGDatabase without its last statement, map_[oid] = {}
AddEntryToPGDatabase_NoRegistry(tbls, mp, oid, name) ==
  LET f == SetUnusedColumns(<<GetIntegerValue(oid), GetVarcharValue(name)>>, DatabaseUnusedCols)
  IN IF f.ok
     THEN [ok |-> TRUE, tbls |-> InsertRow(tbls, pg_database_, f.vec), mp |-> mp]
     ELSE [ok |-> FALSE, tbls |-> tbls, mp |-> mp]

\* Catalog::AddEntryToPGDatabase(txn, oid, name): the relations and map_ as it
\* leaves them; ok = FALSE when SetUnusedColumns threw
AddEntryToPGDatabase(tbls, mp, oid, name) ==
  LET f == SetUnusedColumns(<<GetIntegerValue(oid), GetVarcharValue(name)>>, DatabaseUnusedCols)
  IN IF f.ok
     THEN [ok |-> TRUE, tbls |-> InsertRow(tbls, pg_database_, f.vec), mp |-> Put(mp, oid, EmptyMap)]
     ELSE [ok |-> FALSE, tbls |-> tbls, mp |-> mp]

\* void Catalog::CreateDatabase(txn, name): nothing is returned to the caller
\* (rel = 0 in the call record); db records the identifier handed to
\* AddEntryToPGDatabase
CreateDatabase(name) ==
  /\ pc = "ready"
  /\ oid_ < MaxOid
  /\ LET g == GetNextOid(oid_)
         r == AddEntryToPGDatabase(tables, map_, g.ret, name)
     IN /\ oid_' = g.next
        /\ returned' = Append(returned, g.ret)
        /\ tables' = r.tbls
        /\ map_' = r.mp
        /\ lastOp' = Op("CreateDatabase", name, g.ret, 0,
                        IF r.ok THEN "ok" ELSE "NOT_IMPLEMENTED_EXCEPTION", 0)
  /\ UNCHANGED <<pc, pg_database_, pg_tablespace_, name_map_, unused_schema_cols_,
                 user_tables, txns>>

\* DatabaseHandle::DeleteEntry(txn, entry): removes the row carrying the entry's oid
DeleteEntry(tbls, oid) ==
  LET k == FindByInt(tbls[pg_database_].rows, 1, oid)
  IN IF k = 0 THEN tbls ELSE [tbls EXCEPT ![pg_database_].rows = RemoveAt(@, k)]

\* what db_entry->GetDatabaseOid() may yield when db_entry is a null pointer
\* and the process goes on: a value that names no database, or one that does
GarbageOids == {0, DEFAULT_DATABASE_OID}

\* Catalog::DeleteDatabase(txn, db_name)
DeleteDatabase(db_name) ==
  /\ pc = "ready"
  /\ LET db_entry == GetDatabaseEntry(tables, db_name)
     IN IF db_entry # 0
        THEN LET oid == tables[pg_database_].rows[db_entry][1].i
             IN /\ tables' = DeleteEntry(tables, oid)
                /\ map_' = Erase(map_, oid)
                /\ name_map_' = Erase(name_map_, oid)
                /\ lastOp' = Op("DeleteDatabase", db_name, oid, 0, "ok", 0)
                /\ pc' = pc
        ELSE \* db_entry is NULL and is dereferenced: undefined behaviour
             \/ /\ pc' = "crashed"
                /\ lastOp' = Op("DeleteDatabase", db_name, 0, 0, "crash", 0)
                /\ UNCHANGED <<tables, map_, name_map_>>
             \/ \E oid \in GarbageOids :
                  /\ tables' = DeleteEntry(tables, oid)
                  /\ map_' = Erase(map_, oid)
                  /\ name_map_' = Erase(name_map_, oid)
                  /\ lastOp' = Op("DeleteDatabase", db_name, oid, 0, "undefined", 0)
                  /\ pc' = pc
  /\ UNCHANGED <<oid_, returned, pg_database_, pg_tablespace_, unused_schema_cols_,
                 user_tables, txns>>

\* database ids a caller passes to a lookup or to DestroyDB: the registered
\* ones, the one of the last operation, and one never issued
CallerDbs == (DOMAIN map_) \cup {lastOp.db, 0}

\* table ids a caller passes to a lookup by id
CallerTableIds == {pg_database_, 0}

\* relation names a caller passes to a lookup by name
CallerTableNames == {"pg_class", "nosuch"}

\* Catalog::GetDatabaseCatalog(db_oid, table_oid), called by a client
LookupById(db_oid, table_oid) ==
  /\ pc = "ready"
  /\ LET r == GetDatabaseCatalogById(map_, db_oid, table_oid)
     IN /\ map_' = r.mp
        /\ lastOp' = Op("GetDatabaseCatalogById", "", db_oid, table_oid, r.status, r.rel)
  /\ UNCHANGED <<pc, oid_, returned, tables, pg_database_, pg_tablespace_, name_map_,
                 unused_schema_cols_, user_tables, txns>>

\* Catalog::GetDatabaseCatalog(db_oid, table_name), called by a client
LookupByName(db_oid, table_name) ==
  /\ pc = "ready"
  /\ LET r == GetDatabaseCatalogByName(map_, name_map_, db_oid, table_name)
     IN /\ map_' = r.mp
        /\ lastOp' = Op("GetDatabaseCatalogByName", table_name, db_oid, 0, r.status, r.rel)
  /\ UNCHANGED <<pc, oid_, returned, tables, pg_database_, pg_tablespace_, name_map_,
                 unused_schema_cols_, user_tables, txns>>

\* A user relation comes to exist in the default database: the object is
\* allocated and ClassHandle::AddEntry records its address in pg_class, tagged
\* with namespace ns; the registry does not hold it.
CreateUserTable(ns, max_oid) ==
  /\ pc = "ready"
  /\ oid_ < max_oid
  /\ LET db == DEFAULT_DATABASE_OID
         cls == GetDatabaseCatalogByName(map_, name_map_, db, "pg_class")
         nsp == GetDatabaseCatalogByName(map_, name_map_, db, "pg_namespace")
     IN /\ cls.status = "ok"
        /\ nsp.status = "ok"
        /\ GetNamespaceEntry(tables, nsp.rel, ns) # 0
        /\ GetTablespaceEntry(tables, "pg_default") # 0
        /\ LET g == GetNextOid(oid_)
               ns_oid == tables[nsp.rel].rows[GetNamespaceEntry(tables, nsp.rel, ns)][1].i
               ts_oid == tables[pg_tablespace_].rows[GetTablespaceEntry(tables, "pg_default")][1].i
           IN /\ oid_' = g.next
              /\ returned' = Append(returned, g.ret)
              /\ user_tables' = Put(user_tables, g.ret, 0)
              /\ tables' = InsertRow(tables, cls.rel, ClassRow(g.ret, g.ret, "user_table", ns_oid, ts_oid))
              /\ lastOp' = Op("CreateUserTable", ns, db, g.ret, "ok", g.ret)
  /\ UNCHANGED <<pc, pg_database_, pg_tablespace_, map_, name_map_, unused_schema_cols_, txns>>

(***************************************************************************)
(* Catalog::DestroyDB                                                      *)
(***************************************************************************)
\* pg_class_ptr->Scan(txn, &it, columns): the rows one call materializes
Scan(rows) == SubSeq(rows, 1, IF Len(rows) < ScanMaxTuples THEN Len(rows) ELSE ScanMaxTuples)

\* the addresses the loop of DestroyDB deletes, in order: the __ptr column of
\* every scanned row whose relnamespace column differs from pg_catalog_oid
ToDelete(scanned, pg_catalog_oid) ==
  SelectSeq([i \in 1..Len(scanned) |->
               IF scanned[i][4].i # pg_catalog_oid THEN scanned[i][1].i ELSE 0],
            LAMBDA p : p # 0)

\* the number of times address p occurs in sequence q
Occurrences(q, p) == Cardinality({i \in 1..Len(q) : q[i] = p})

\* Catalog::DestroyDB(oid)
DestroyDB(oid) ==
  /\ pc = "ready"
  /\ Len(txns) < 1 + MaxDestroy
  /\ LET pg_class == GetDatabaseCatalogByName(map_, name_map_, oid, "pg_class")
         pg_namespace == GetDatabaseCatalogByName(map_, name_map_, oid, "pg_namespace")
     IN IF pg_class.status # "ok" \/ pg_namespace.status # "ok"
        THEN \* std::out_of_range leaves DestroyDB; txn is neither ended nor deleted
             /\ txns' = Append(txns, [by |-> "DestroyDB", state |-> "active"])
             /\ lastOp' = Op("DestroyDB", "", oid, 0, "out_of_range", 0)
             /\ UNCHANGED <<pc, user_tables>>
        ELSE LET scanned == Scan(tables[pg_class.rel].rows)
                 e == GetNamespaceEntry(tables, pg_namespace.rel, "pg_catalog")
                 pg_catalog_oid == IF e = 0 THEN 0 ELSE tables[pg_namespace.rel].rows[e][1].i
                 dels == ToDelete(scanned, pg_catalog_oid)
                 after == [p \in DOMAIN user_tables |-> user_tables[p] + Occurrences(dels, p)]
                 again == \E p \in DOMAIN user_tables : user_tables[p] > 0 /\ after[p] > user_tables[p]
             IN /\ txns' = Append(txns, [by |-> "DestroyDB", state |-> "deleted_uncommitted"])
                /\ user_tables' = after
                /\ \/ /\ pc' = pc
                      /\ lastOp' = Op("DestroyDB", "", oid, Len(scanned), "ok", 0)
                   \/ \* a second delete of an object is undefined behaviour
                      /\ again
                      /\ pc' = "crashed"
                      /\ lastOp' = Op("DestroyDB", "", oid, Len(scanned), "crash", 0)
  /\ UNCHANGED <<oid_, returned, tables, pg_database_, pg_tablespace_, map_, name_map_,
                 unused_schema_cols_>>

(***************************************************************************)
(* Specifications.                                                         *)
(***************************************************************************)
Next ==
  \/ Bootstrap /\ UNCHANGED callVars
  \/ \E name \in DbNames : CreateDatabase(name) /\ UNCHANGED callVars
  \/ \E name \in DbNames : DeleteDatabase(name) /\ UNCHANGED callVars
  \/ \E db \in CallerDbs, t \in CallerTableIds : LookupById(db, t) /\ UNCHANGED callVars
  \/ \E db \in CallerDbs, n \in CallerTableNames : LookupByName(db, n) /\ UNCHANGED callVars
  \/ \E ns \in {"pg_catalog", "public"} : CreateUserTable(ns, MaxOid) /\ UNCHANGED callVars
  \/ \E db \in CallerDbs : DestroyDB(db) /\ UNCHANGED callVars

Spec == Init /\ [][Next]_vars


(***************************************************************************)
(* SpecFill: the list of declared-but-unused columns of pg_database is     *)
(* drawn from the lists of at most MaxCols column types; the constructor   *)
(* and CreateDatabase fill rows from it.                                   *)
(***************************************************************************)
ColumnTypeLists == UNION {[1..k -> TypeIds] : k \in 0..MaxCols}

InitFill ==
  /\ pc = "BeginTransaction"
  /\ oid_ = START_OID
  /\ returned = <<>>
  /\ tables = EmptyMap
  /\ pg_database_ = 0
  /\ pg_tablespace_ = 0
  /\ map_ = EmptyMap
  /\ name_map_ = EmptyMap
  /\ unused_schema_cols_ \in ColumnTypeLists
  /\ user_tables = EmptyMap
  /\ txns = <<>>
  /\ lastOp = NoOp
  /\ caller = IdleCallers
  /\ serialized = FALSE
  /\ mutex = 0
  /\ client_txn = NoClientTxn

NextFill ==
  \/ Bootstrap /\ UNCHANGED callVars
  \/ CreateDatabase("foo") /\ UNCHANGED callVars

SpecFill == InitFill /\ [][NextFill]_vars

(***************************************************************************)
(* SpecScan: user relations are created in the public namespace of the     *)
(* default database until pg_class outgrows one Scan, and DestroyDB runs.  *)
(***************************************************************************)
NextScan ==
  \/ Bootstrap /\ UNCHANGED callVars
  \/ CreateUserTable("public", MaxScanOid) /\ UNCHANGED callVars
  \/ DestroyDB(DEFAULT_DATABASE_OID) /\ UNCHANGED callVars

SpecScan == Init /\ [][NextScan]_vars

(***************************************************************************)
(* SpecRace: after the constructor, the callers call GetNextOid from       *)
(* different threads.  `return oid_++` on the plain uint32_t oid_ is a     *)
(* read of oid_ followed by a write of the value read plus one; without    *)
(* serialization the two steps of different callers interleave freely (a   *)
(* data race).  With serialized, a caller holds the mutex from its read to *)
(* its write.                                                              *)
(***************************************************************************)
\* the read of oid_ in `oid_++`
LoadOid(t) ==
  /\ pc = "ready"
  /\ caller[t].pc = "idle"
  /\ Len(caller[t].got) < MaxCalls
  /\ serialized => mutex = 0
  /\ caller' = [caller EXCEPT ![t].pc = "loaded", ![t].tmp = oid_]
  /\ mutex' = IF serialized THEN t ELSE mutex
  /\ UNCHANGED <<pc, oid_, returned, tables, pg_database_, pg_tablespace_, map_, name_map_,
                 unused_schema_cols_, user_tables, txns, lastOp, serialized, client_txn>>

\* a second half of GetNextOid that returns the value read and writes nothing
StoreOid_NoWrite(t) ==
  /\ pc = "ready"
  /\ caller[t].pc = "loaded"
  /\ returned' = Append(returned, caller[t].tmp)
  /\ caller' = [caller EXCEPT ![t].pc = "idle", ![t].got = Append(@, caller[t].tmp)]
  /\ mutex' = IF serialized THEN 0 ELSE mutex
  /\ UNCHANGED <<pc, oid_, tables, pg_database_, pg_tablespace_, map_, name_map_,
                 unused_schema_cols_, user_tables, txns, lastOp, serialized, client_txn>>

\* the write of oid_ in `oid_++` and the return of the value read
StoreOid(t) ==
  /\ pc = "ready"
  /\ caller[t].pc = "loaded"
  /\ LET g == GetNextOid(caller[t].tmp)
     IN /\ oid_' = g.next
        /\ returned' = Append(returned, g.ret)
        /\ caller' = [caller EXCEPT ![t].pc = "idle", ![t].got = Append(@, g.ret)]
  /\ mutex' = IF serialized THEN 0 ELSE mutex
  /\ UNCHANGED <<pc, tables, pg_database_, pg_tablespace_, map_, name_map_,
                 unused_schema_cols_, user_tables, txns, lastOp, serialized, client_txn>>

InitRace ==
  /\ pc = "BeginTransaction"
  /\ oid_ = START_OID
  /\ returned = <<>>
  /\ tables = EmptyMap
  /\ pg_database_ = 0
  /\ pg_tablespace_ = 0
  /\ map_ = EmptyMap
  /\ name_map_ = EmptyMap
  /\ unused_schema_cols_ = DatabaseUnusedTypes
  /\ user_tables = EmptyMap
  /\ txns = <<>>
  /\ lastOp = NoOp
  /\ caller = IdleCallers
  /\ serialized \in BOOLEAN
  /\ mutex = 0
  /\ client_txn = NoClientTxn

NextRace ==
  \/ Bootstrap /\ UNCHANGED callVars
  \/ \E t \in Callers : LoadOid(t)
  \/ \E t \in Callers : StoreOid(t)

SpecRace == InitRace /\ [][NextRace]_vars


(***************************************************************************)
(* Observations used by the properties.                                    *)
(***************************************************************************)
\* the rows of the relation registered under name for database db (none: <<>>)
RowsOf(db, name) ==
  LET r == GetDatabaseCatalogByName(map_, name_map_, db, name)
  IN IF r.status = "ok" THEN tables[r.rel].rows ELSE <<>>

\* the strings column c of rows holds, in row order
NamesOf(rows, c) == [i \in 1..Len(rows) |-> rows[i][c].s]

\* the constructor has returned and no other operation has run since
JustBootstrapped == pc = "ready" /\ lastOp.op = "Bootstrap" /\ lastOp.status = "ok"

IsLookup(o) == o.op \in {"GetDatabaseCatalogById", "GetDatabaseCatalogByName"}

(***************************************************************************)
(* C1: the values GetNextOid returns, over the constructor and every later *)
(* allocation, start at START_OID and are strictly increasing, hence       *)
(* pairwise distinct.                                                      *)
(***************************************************************************)
C1_OidsStrictlyIncreasing ==
  /\ returned # <<>> => returned[1] = START_OID
  /\ \A i, j \in 1..Len(returned) : i < j => returned[i] < returned[j]

\* allocations of the bootstrap and of two later operations have been made
C1_Witness ==
  /\ pc = "ready"
  /\ lastOp.op \in {"CreateDatabase", "CreateUserTable"}
  /\ Len(returned) >= 45

(***************************************************************************)
(* C2 (as stated): immediately after bootstrap pg_class of the default     *)
(* database holds exactly the 4 rows pg_database, pg_tablespace,           *)
(* pg_namespace, pg_class.                                                 *)
(***************************************************************************)
C2_FourClassRows ==
  JustBootstrapped =>
    NamesOf(RowsOf(DEFAULT_DATABASE_OID, "pg_class"), 3) =
      <<"pg_database", "pg_tablespace", "pg_namespace", "pg_class">>

(***************************************************************************)
(* C2 (amended): immediately after bootstrap pg_class of the default       *)
(* database holds exactly 5 rows: pg_database, pg_tablespace,              *)
(* pg_namespace, pg_class and pg_attribute, in that order.                 *)
(***************************************************************************)
C2_FiveClassRows ==
  JustBootstrapped =>
    NamesOf(RowsOf(DEFAULT_DATABASE_OID, "pg_class"), 3) =
      <<"pg_database", "pg_tablespace", "pg_namespace", "pg_class", "pg_attribute">>

C2_Witness == JustBootstrapped /\ Len(RowsOf(DEFAULT_DATABASE_OID, "pg_class")) = 5

(***************************************************************************)
(* C3: after DestroyDB has run once and completed its pass over a          *)
(* database, whatever the number of rows of its pg_class, no relation of a *)
(* row tagged with the pg_catalog namespace has been destroyed and every   *)
(* relation of a row tagged otherwise has been destroyed exactly once.     *)
(***************************************************************************)
C3_LifecycleIsolation ==
  (pc = "ready" /\ lastOp.op = "DestroyDB" /\ lastOp.status = "ok" /\ Len(txns) = 2) =>
    LET rows == RowsOf(lastOp.db, "pg_class")
        ns == RowsOf(lastOp.db, "pg_namespace")
        pg_catalog_oid == ns[FindByName(ns, 2, "pg_catalog")][1].i
    IN \A i \in 1..Len(rows) :
         rows[i][1].i \in DOMAIN user_tables =>
           user_tables[rows[i][1].i] = (IF rows[i][4].i = pg_catalog_oid THEN 0 ELSE 1)

(***************************************************************************)
(* C4: DeleteDatabase of a name that has no row in pg_database ends with   *)
(* NotFound and leaves pg_database and both registry maps as they were.    *)
(***************************************************************************)
C4_DeleteUnknownIsNotFound ==
  [][\A name \in DbNames :
       (pc = "ready" /\ GetDatabaseEntry(tables, name) = 0 /\ DeleteDatabase(name)) =>
         (lastOp'.status = "NotFound" /\ UNCHANGED <<tables, map_, name_map_>>)]_vars

(***************************************************************************)
(* C5: whatever the catalog holds, CreateDatabase(name) directly followed  *)
(* by DeleteDatabase(name) leaves no entry for name in pg_database.        *)
(***************************************************************************)
C5_CreateDropSymmetry ==
  (lastOp.op = "DeleteDatabase" /\ lastOp.after_create) =>
    GetDatabaseEntry(tables, lastOp.name) = 0

(***************************************************************************)
(* C6: a registry lookup by (db, table id) or by (db, name) whose database *)
(* or table id / name is absent fails with std::out_of_range (the NotFound *)
(* outcome of at()), returns no relation and leaves both maps unchanged.   *)
(***************************************************************************)
AbsentById(db, t) == ~(db \in DOMAIN map_ /\ t \in DOMAIN map_[db])

AbsentByName(db, n) ==
  \/ ~(db \in DOMAIN name_map_ /\ n \in DOMAIN name_map_[db])
  \/ AbsentById(db, name_map_[db][n])

SystemRelationNames ==
  {"pg_database", "pg_tablespace", "pg_namespace", "pg_class", "pg_attribute", "pg_attrdef",
   "pg_type"}

C7_SystemRelationsRegistered ==
  JustBootstrapped =>
    /\ \A n \in SystemRelationNames :
         GetDatabaseCatalogByName(map_, name_map_, DEFAULT_DATABASE_OID, n).status = "ok"
    /\ Len(RowsOf(DEFAULT_DATABASE_OID, "pg_type")) = 9

(***************************************************************************)
(* C8: after bootstrap a namespace lookup by name in the default database  *)
(* finds an entry for "pg_catalog" and for "public" and none for any other *)
(* name: pg_namespace holds rows of exactly these two names.               *)
(***************************************************************************)
NamespaceProbes == {"pg_catalog", "public", "pg_global", "pg_default", "terrier", "nosuch", ""}

C8_BootstrapNamespaces ==
  JustBootstrapped =>
    LET ns == GetDatabaseCatalogByName(map_, name_map_, DEFAULT_DATABASE_OID, "pg_namespace")
    IN /\ ns.status = "ok"
       /\ \A n \in NamespaceProbes :
            (GetNamespaceEntry(tables, ns.rel, n) # 0) <=> (n \in {"pg_catalog", "public"})
       /\ {tables[ns.rel].rows[i][2].s : i \in 1..Len(tables[ns.rel].rows)} = {"pg_catalog", "public"}

C8_Witness ==
  /\ JustBootstrapped
  /\ FindByName(RowsOf(DEFAULT_DATABASE_OID, "pg_namespace"), 2, "public") # 0

(***************************************************************************)
(* C9: once the constructor has populated pg_tablespace it holds exactly   *)
(* the rows pg_global and pg_default, in that order, with two distinct     *)
(* identifiers that GetNextOid issued; no later step or operation adds,    *)
(* removes or changes a row of it.                                         *)
(***************************************************************************)
C9_TwoTablespaces ==
  (pc \notin {"BeginTransaction", "CreatePGDatabase", "PopulatePGDatabase", "CreatePGTablespace",
              "PopulatePGTablespace", "failed"}) =>
    LET rows == tables[pg_tablespace_].rows
    IN /\ NamesOf(rows, 2) = <<"pg_global", "pg_default">>
       /\ rows[1][1].i # rows[2][1].i
       /\ \A k \in 1..2 : \E i \in 1..Len(returned) : returned[i] = rows[k][1].i

\* databases were created and deleted and the reclamation pass has run
C9_Witness ==
  /\ lastOp.op = "DestroyDB"
  /\ Len(tables[pg_database_].rows) # 1
  /\ Len(tables[pg_tablespace_].rows) = 2

(***************************************************************************)
(* C10: the filler appends one default per declared-but-unused column in   *)
(* list order, false / 0 / null for BOOLEAN / INTEGER / VARCHAR; if a      *)
(* column has another type NOT_IMPLEMENTED_EXCEPTION (UnsupportedType) is  *)
(* raised and no row, complete or partial, enters the relation.            *)
(***************************************************************************)
SupportedTypes == {"BOOLEAN", "INTEGER", "VARCHAR"}

ExpectedDefault(t) ==
  CASE t = "BOOLEAN" -> [type_id |-> "BOOLEAN", null |-> FALSE, i |-> 0, s |-> ""]
    [] t = "INTEGER" -> [type_id |-> "INTEGER", null |-> FALSE, i |-> 0, s |-> ""]
    [] t = "VARCHAR" -> [type_id |-> "VARCHAR", null |-> TRUE, i |-> 0, s |-> ""]

C10_DefaultFilling ==
  pg_database_ # 0 =>
    LET rows == tables[pg_database_].rows
        cols == unused_schema_cols_
    IN IF \A k \in 1..Len(cols) : cols[k] \in SupportedTypes
       THEN /\ pc # "failed"
            /\ \A i \in 1..Len(rows) :
                 /\ Len(rows[i]) = 2 + Len(cols)
                 /\ \A k \in 1..Len(cols) : rows[i][2 + k] = ExpectedDefault(cols[k])
       ELSE /\ rows = <<>>
            /\ pc \in {"PopulatePGDatabase", "failed"}
            /\ pc = "failed" => lastOp.status = "NOT_IMPLEMENTED_EXCEPTION"

\* the filler met an unsupported column after it had appended a default
C10_Witness ==
  /\ pc = "failed"
  /\ lastOp.status = "NOT_IMPLEMENTED_EXCEPTION"
  /\ tables[pg_database_].rows = <<>>
  /\ Len(unused_schema_cols_) >= 2
  /\ unused_schema_cols_[1] \in SupportedTypes
  /\ unused_schema_cols_[2] \notin SupportedTypes

(***************************************************************************)
(* C11 (as stated): CreateDatabase allocates exactly one fresh identifier, *)
(* inserts exactly one row (identifier, name, defaults) into pg_database,  *)
(* gives the identifier an empty entry in map_, returns the identifier to  *)
(* the caller, and changes no other registry entry and no other relation.  *)
(***************************************************************************)
\* what the step from the unprimed to the primed state must be for a call
\* CreateDatabase(name) that hands result back to the caller
CreateDatabaseEffect(name, result) ==
  LET id == oid_
      row == <<GetIntegerValue(id), GetVarcharValue(name)>> \o
             [k \in 1..Len(unused_schema_cols_) |-> ExpectedDefault(unused_schema_cols_[k])]
  IN /\ returned' = Append(returned, id)
     /\ \A i \in 1..Len(returned) : returned[i] # id
     /\ id \notin DOMAIN map_
     /\ DOMAIN tables' = DOMAIN tables
     /\ tables'[pg_database_].rows = Append(tables[pg_database_].rows, row)
     /\ \A t \in DOMAIN tables \ {pg_database_} : tables'[t] = tables[t]
     /\ DOMAIN map_' = (DOMAIN map_) \cup {id}
     /\ map_'[id] = EmptyMap
     /\ \A d \in DOMAIN map_ : map_'[d] = map_[d]
     /\ name_map_' = name_map_
     /\ lastOp'.rel = result

C11_CreateReturnsIdentifier ==
  [][\A name \in DbNames :
       (pc = "ready" /\ CreateDatabase(name)) => CreateDatabaseEffect(name, oid_)]_vars

(***************************************************************************)
(* C11 (amended): as above, except that CreateDatabase returns nothing to  *)
(* the caller: the identifier is recorded only in the pg_database row and  *)
(* as the key of the new map_ entry.                                       *)
(***************************************************************************)
C11_CreateReturnsNothing ==
  [][\A name \in DbNames :
       (pc = "ready" /\ CreateDatabase(name)) => CreateDatabaseEffect(name, 0)]_vars

\* CreateDatabase("foo") has run: its row is the last of pg_database and its
\* identifier has an empty entry in map_
C11_Witness ==
  /\ pc = "ready"
  /\ lastOp.op = "CreateDatabase"
  /\ lastOp.name = "foo"
  /\ lastOp.db \in DOMAIN map_
  /\ map_[lastOp.db] = EmptyMap
  /\ tables[pg_database_].rows[Len(tables[pg_database_].rows)][1].i = lastOp.db

(***************************************************************************)
(* C12: an entry added to pg_namespace, pg_database, pg_tablespace or      *)
(* pg_class and then retrieved, in the state the insertion leaves, with    *)
(* the identifier it was given is an entry with that identifier and the    *)
(* supplied name; an identifier not yet issued and a name never inserted   *)
(* retrieve no entry.                                                      *)
(***************************************************************************)
\* the last n identifiers GetNextOid has issued in the primed state
LastIssued(n) == SubSeq(returned', Len(returned') - n + 1, Len(returned'))

C12_RoundTrip ==
  [][/\ \A name \in DbNames :
          (pc = "ready" /\ CreateDatabase(name)) =>
            LET e == GetDatabaseEntryByOid(tables', oid_)
            IN /\ e # 0
               /\ tables'[pg_database_].rows[e][1].i = oid_
               /\ tables'[pg_database_].rows[e][2].s = name
               /\ GetDatabaseEntryByOid(tables', oid_') = 0
     /\ PopulatePGTablespace =>
          LET ids == LastIssued(2)
              names == <<"pg_global", "pg_default">>
          IN /\ \A k \in 1..2 :
                  LET e == GetTablespaceEntryByOid(tables', ids[k])
                  IN /\ e # 0
                     /\ tables'[pg_tablespace_].rows[e][1].i = ids[k]
                     /\ tables'[pg_tablespace_].rows[e][2].s = names[k]
             /\ GetTablespaceEntryByOid(tables', oid_') = 0
             /\ GetTablespaceEntry(tables', "nosuch") = 0
     /\ CreatePGNameSpace =>
          LET ns == name_map_'[DEFAULT_DATABASE_OID]["pg_namespace"]
              ids == LastIssued(2)
              names == <<"pg_catalog", "public">>
          IN /\ \A k \in 1..2 :
                  LET e == GetNamespaceEntryByOid(tables', ns, ids[k])
                  IN /\ e # 0
                     /\ tables'[ns].rows[e][1].i = ids[k]
                     /\ tables'[ns].rows[e][2].s = names[k]
             /\ GetNamespaceEntryByOid(tables', ns, oid_') = 0
             /\ GetNamespaceEntry(tables', ns, "nosuch") = 0
     /\ CreatePGClass =>
          LET db == DEFAULT_DATABASE_OID
              cls == name_map_'[db]["pg_class"]
          IN /\ \A k \in 1..Len(PGClassEntries) :
                  LET id == name_map_'[db][PGClassEntries[k].name]
                      e == GetClassEntryByOid(tables', cls, id)
                  IN /\ e # 0
                     /\ tables'[cls].rows[e][2].i = id
                     /\ tables'[cls].rows[e][3].s = PGClassEntries[k].name
             /\ GetClassEntryByOid(tables', cls, oid_') = 0]_vars

\* both namespaces were added and a database was created after the bootstrap
C12_Witness ==
  /\ pc = "ready"
  /\ lastOp.op = "CreateDatabase"
  /\ GetDatabaseEntryByOid(tables, lastOp.db) # 0
  /\ LET ns == name_map_[DEFAULT_DATABASE_OID]["pg_namespace"]
     IN GetNamespaceEntry(tables, ns, "public") = 2

(***************************************************************************)
(* C13: the constructor's bootstrap takes its steps in one order: create   *)
(* pg_database, insert the default database's row, create pg_tablespace,   *)
(* insert its two rows, register pg_database and pg_tablespace, create     *)
(* pg_attribute, create pg_namespace with pg_catalog and public, create    *)
(* pg_class with its rows, create pg_attrdef, commit.  In every state of   *)
(* the bootstrap the steps taken are a prefix of this list; rows are only  *)
(* in relations that are pg_database, pg_tablespace or registered; pg_class*)
(* has rows only when the pg_catalog row and both tablespace rows exist.   *)
(***************************************************************************)
\* the constructor is running or has just returned
InBootstrap ==
  \/ pc \in {"BeginTransaction", "CreatePGDatabase", "PopulatePGDatabase", "CreatePGTablespace",
              "PopulatePGTablespace", "BootstrapDatabase", "CreatePGAttribute", "CreatePGNameSpace",
              "CreatePGClass", "AttrDefCreate", "Commit"}
  \/ JustBootstrapped

Registered(name) ==
  /\ DEFAULT_DATABASE_OID \in DOMAIN name_map_
  /\ name \in DOMAIN name_map_[DEFAULT_DATABASE_OID]
  /\ DEFAULT_DATABASE_OID \in DOMAIN map_
  /\ name_map_[DEFAULT_DATABASE_OID][name] \in DOMAIN map_[DEFAULT_DATABASE_OID]

\* the steps of the bootstrap, in the claimed order, as facts of the state
BootstrapStepsDone ==
  <<pg_database_ # 0,
    pg_database_ # 0 /\ NamesOf(tables[pg_database_].rows, 2) = <<"terrier">>,
    pg_tablespace_ # 0,
    pg_tablespace_ # 0 /\ Len(tables[pg_tablespace_].rows) = 2,
    Registered("pg_database") /\ Registered("pg_tablespace"),
    Registered("pg_attribute"),
    Registered("pg_namespace") /\ NamesOf(RowsOf(DEFAULT_DATABASE_OID, "pg_namespace"), 2) = <<"pg_catalog", "public">>,
    Registered("pg_class") /\ RowsOf(DEFAULT_DATABASE_OID, "pg_class") # <<>>,
    Registered("pg_attrdef"),
    txns # <<>> /\ txns[1].state = "committed">>

C13_BootstrapOrder ==
  InBootstrap =>
    /\ \A i, j \in 1..Len(BootstrapStepsDone) :
         (i < j /\ BootstrapStepsDone[j]) => BootstrapStepsDone[i]
    /\ JustBootstrapped => \A i \in 1..Len(BootstrapStepsDone) : BootstrapStepsDone[i]
    /\ \A t \in DOMAIN tables :
         (tables[t].rows # <<>> /\ t \notin {pg_database_, pg_tablespace_}) =>
           /\ DEFAULT_DATABASE_OID \in DOMAIN map_
           /\ t \in DOMAIN map_[DEFAULT_DATABASE_OID]
    /\ \A t \in DOMAIN tables :
         (tables[t].cols[1].col_name = "__ptr" /\ tables[t].rows # <<>>) =>
           /\ FindByName(RowsOf(DEFAULT_DATABASE_OID, "pg_namespace"), 2, "pg_catalog") # 0
           /\ GetTablespaceEntry(tables, "pg_global") # 0
           /\ GetTablespaceEntry(tables, "pg_default") # 0
           /\ Registered("pg_class")
           /\ name_map_[DEFAULT_DATABASE_OID]["pg_class"] = t

\* the bootstrap is between two steps: pg_attribute is registered and holds
\* rows, pg_namespace does not exist yet
C13_Witness ==
  /\ pc = "CreatePGNameSpace"
  /\ Registered("pg_attribute")
  /\ RowsOf(DEFAULT_DATABASE_OID, "pg_attribute") # <<>>
  /\ ~Registered("pg_namespace")

(***************************************************************************)
(* C14: in every state an operation of the catalog leaves, for every       *)
(* database id of map_, every table id of that database's entry has        *)
(* exactly one name in the same database's entry of name_map_.             *)
(***************************************************************************)
C14_RegistryInvariant ==
  \A db \in DOMAIN map_ :
    \A t \in DOMAIN map_[db] :
      /\ db \in DOMAIN name_map_
      /\ Cardinality({n \in DOMAIN name_map_[db] : name_map_[db][n] = t}) = 1

\* the six relations of the default database are registered and another
\* database has been created
C14_Witness ==
  /\ pc = "ready"
  /\ lastOp.op = "CreateDatabase"
  /\ lastOp.db \in DOMAIN map_
  /\ Cardinality(DOMAIN map_[DEFAULT_DATABASE_OID]) = 6

(***************************************************************************)
(* C15: DestroyDB called for the default database right after              *)
(* DeleteDatabase has removed its pg_database row still finds the          *)
(* database's pg_class, scans it and destroys every user relation that a   *)
(* row outside the pg_catalog namespace records.                           *)
(***************************************************************************)
\* the user relations recorded in a pg_class relation under a namespace
\* other than pg_catalog
UserRelationsToReclaim ==
  {p \in DOMAIN user_tables :
     \E t, n \in DOMAIN tables :
       /\ tables[t].cols[1].col_name = "__ptr"
       /\ tables[n].cols[2].col_name = "nspname"
       /\ \E i \in 1..Len(tables[t].rows) :
            /\ tables[t].rows[i][1].i = p
            /\ tables[t].rows[i][4].i # tables[n].rows[FindByName(tables[n].rows, 2, "pg_catalog")][1].i}

C15_ReclaimAfterDelete ==
  [][(/\ pc = "ready"
      /\ lastOp.op = "DeleteDatabase"
      /\ lastOp.status = "ok"
      /\ lastOp.db = DEFAULT_DATABASE_OID
      /\ DestroyDB(lastOp.db)) =>
       /\ lastOp'.status = "ok"
       /\ \A p \in UserRelationsToReclaim : user_tables'[p] = 1]_vars

C17_ClassRowReferences ==
  JustBootstrapped =>
    LET db == DEFAULT_DATABASE_OID
        rows == RowsOf(db, "pg_class")
        ns == RowsOf(db, "pg_namespace")
        ts == tables[pg_tablespace_].rows
        pg_catalog_oid == ns[FindByName(ns, 2, "pg_catalog")][1].i
        pg_global_oid == ts[FindByName(ts, 2, "pg_global")][1].i
        pg_default_oid == ts[FindByName(ts, 2, "pg_default")][1].i
    IN /\ rows # <<>>
       /\ FindByName(ns, 2, "pg_catalog") # 0
       /\ pg_global_oid # pg_default_oid
       /\ \A i \in 1..Len(rows) :
            /\ rows[i][4].i = pg_catalog_oid
            /\ rows[i][5].i = (IF rows[i][3].s \in {"pg_database", "pg_tablespace"}
                               THEN pg_global_oid ELSE pg_default_oid)
            /\ rows[i][3].s \in DOMAIN name_map_[db]
            /\ rows[i][2].i = name_map_[db][rows[i][3].s]
            /\ rows[i][2].i \in DOMAIN map_[db]

\* the rows of pg_database and of pg_namespace are in pg_class, with
\* different tablespace ids
C17_Witness ==
  /\ JustBootstrapped
  /\ LET rows == RowsOf(DEFAULT_DATABASE_OID, "pg_class")
     IN /\ FindByName(rows, 3, "pg_database") # 0
        /\ FindByName(rows, 3, "pg_namespace") # 0
        /\ rows[FindByName(rows, 3, "pg_database")][5].i # rows[FindByName(rows, 3, "pg_namespace")][5].i

(***************************************************************************)
(* C18: after bootstrap the rows of pg_attribute that describe             *)
(* pg_attribute, pg_database and pg_tablespace are, in this order, one row *)
(* per column of pg_attribute, then of pg_database, then of pg_tablespace, *)
(* each with the column's identifier as oid, the relation's table id as    *)
(* attrelid and the column's name as attname.                              *)
(***************************************************************************)
\* <<oid, attrelid, attname>> expected for the columns of relation t, in column order
ExpectedAttributes(t) ==
  [i \in 1..Len(tables[t].cols) |-> <<tables[t].cols[i].oid, t, tables[t].cols[i].col_name>>]

C18_AttributeRows ==
  JustBootstrapped =>
    LET db == DEFAULT_DATABASE_OID
        pg_attribute == name_map_[db]["pg_attribute"]
        described == {pg_attribute, pg_database_, pg_tablespace_}
        rows == SelectSeq(tables[pg_attribute].rows, LAMBDA r : r[2].i \in described)
    IN /\ Cardinality(described) = 3
       /\ [i \in 1..Len(rows) |-> <<rows[i][1].i, rows[i][2].i, rows[i][3].s>>] =
            ExpectedAttributes(pg_attribute) \o ExpectedAttributes(pg_database_) \o
            ExpectedAttributes(pg_tablespace_)

\* pg_attribute holds the 6 + 9 + 5 rows of the three relations
C18_Witness ==
  /\ JustBootstrapped
  /\ Len(RowsOf(DEFAULT_DATABASE_OID, "pg_attribute")) >= 20
  /\ RowsOf(DEFAULT_DATABASE_OID, "pg_attribute")[7][3].s = "oid"
  /\ RowsOf(DEFAULT_DATABASE_OID, "pg_attribute")[7][2].i = pg_database_

(***************************************************************************)
(* C19: DeleteDatabase of a name that has a row in pg_database removes     *)
(* that row and the database's entries of map_ and name_map_, and leaves   *)
(* every other row of pg_database, every other entry of both maps, every   *)
(* other relation (pg_class, pg_attribute, pg_namespace, pg_tablespace)    *)
(* and the identifier counter as they were.                                *)
(***************************************************************************)
C19_DeleteFrame ==
  [][\A name \in DbNames :
       (pc = "ready" /\ GetDatabaseEntry(tables, name) # 0 /\ DeleteDatabase(name)) =>
         LET rows == tables[pg_database_].rows
             e == GetDatabaseEntry(tables, name)
             oid == rows[e][1].i
         IN /\ tables'[pg_database_].rows =
                 [i \in 1..(Len(rows) - 1) |-> IF i < e THEN rows[i] ELSE rows[i + 1]]
            /\ DOMAIN tables' = DOMAIN tables
            /\ \A t \in DOMAIN tables \ {pg_database_} : tables'[t] = tables[t]
            /\ DOMAIN map_' = (DOMAIN map_) \ {oid}
            /\ \A d \in DOMAIN map_' : map_'[d] = map_[d]
            /\ DOMAIN name_map_' = (DOMAIN name_map_) \ {oid}
            /\ \A d \in DOMAIN name_map_' : name_map_'[d] = name_map_[d]
            /\ oid_' = oid_
            /\ returned' = returned
            /\ pc' = "ready"]_vars

\* a created database was deleted: its registry entry is gone, the default
\* database's row and registry entries are still there
C19_Witness ==
  /\ pc = "ready"
  /\ lastOp.op = "DeleteDatabase"
  /\ lastOp.status = "ok"
  /\ lastOp.db # DEFAULT_DATABASE_OID
  /\ lastOp.db \notin DOMAIN map_
  /\ GetDatabaseEntryByOid(tables, DEFAULT_DATABASE_OID) # 0
  /\ Cardinality(DOMAIN map_[DEFAULT_DATABASE_OID]) = 6

(***************************************************************************)
(* C20: when the callers of GetNextOid serialize their calls, no two calls *)
(* receive the same identifier; when they do not, a state is reachable in  *)
(* which two callers have received the same identifier (C20_Witness).      *)
(***************************************************************************)
\* the calls made so far, as <<caller, number of the call>>
CallsMade == {c \in Callers \X (1..MaxCalls) : c[2] <= Len(caller[c[1]].got)}

C20_SerializedCallsDistinct ==
  serialized =>
    \A c, d \in CallsMade : c # d => caller[c[1]].got[c[2]] # caller[d[1]].got[d[2]]

\* the callers did not serialize and both received the same identifier
C20_Witness ==
  /\ ~serialized
  /\ \E i \in 1..Len(caller[1].got), j \in 1..Len(caller[2].got) :
       caller[1].got[i] = caller[2].got[j]

(***************************************************************************)
(* SpecTxn: a client begins a transaction, calls CreateDatabase and        *)
(* DeleteDatabase with it, and commits or aborts it.  The rows written     *)
(* through SqlTableRW belong to the transaction; map_ and name_map_ are    *)
(* members of Catalog written in place.                                    *)
(***************************************************************************)
\* txn_manager->BeginTransaction() by a client
BeginClient ==
  /\ pc = "ready"
  /\ client_txn.state # "active"
  /\ client_txn' = [state |-> "active", undo |-> tables[pg_database_].rows]
  /\ UNCHANGED <<pc, oid_, returned, tables, pg_database_, pg_tablespace_, map_, name_map_,
                 unused_schema_cols_, user_tables, txns, lastOp, caller, serialized, mutex>>

\* txn_manager->Commit(txn, ...) by a client: the rows written stay
CommitClient ==
  /\ pc = "ready"
  /\ client_txn.state = "active"
  /\ client_txn' = [state |-> "committed", undo |-> <<>>]
  /\ UNCHANGED <<pc, oid_, returned, tables, pg_database_, pg_tablespace_, map_, name_map_,
                 unused_schema_cols_, user_tables, txns, lastOp, caller, serialized, mutex>>

\* txn_manager->Abort(txn) by a client: the rows of pg_database are again
\* those of the begin; nothing of the catalog is called, so map_ and
\* name_map_ stay as CreateDatabase and DeleteDatabase left them
AbortClient ==
  /\ pc = "ready"
  /\ client_txn.state = "active"
  /\ tables' = [tables EXCEPT ![pg_database_].rows = client_txn.undo]
  /\ client_txn' = [state |-> "aborted", undo |-> <<>>]
  /\ UNCHANGED <<pc, oid_, returned, pg_database_, pg_tablespace_, map_, name_map_,
                 unused_schema_cols_, user_tables, txns, lastOp, caller, serialized, mutex>>

NextTxn ==
  \/ Bootstrap /\ UNCHANGED callVars
  \/ BeginClient
  \/ \E name \in DbNames :
       client_txn.state = "active" /\ CreateDatabase(name) /\ UNCHANGED callVars
  \/ \E name \in DbNames :
       client_txn.state = "active" /\ DeleteDatabase(name) /\ UNCHANGED callVars
  \/ CommitClient
  \/ AbortClient

SpecTxn == Init /\ [][NextTxn]_vars

\* the ids of the rows of pg_database
DatabaseRowOids == {tables[pg_database_].rows[k][1].i : k \in DOMAIN tables[pg_database_].rows}

\* no transaction is in flight: the constructor's is over and the client's is
\* committed or aborted
NoTxnInFlight ==
  /\ pc = "ready"
  /\ client_txn.state \in {"committed", "aborted"}

(***************************************************************************)
(* C22: whenever no transaction is in flight, a database id has an entry   *)
(* in the registry map_ if and only if pg_database has a row with that id, *)
(* after a committed and after an aborted CreateDatabase / DeleteDatabase. *)
(***************************************************************************)
C22_RegistryAgreesWithRows ==
  NoTxnInFlight => DOMAIN map_ = DatabaseRowOids

(***************************************************************************)
(* C21: over any sequence of operations, DestroyDB called more than once   *)
(* for a database included, no relation object is destroyed more than      *)
(* once.                                                                   *)
(***************************************************************************)
C21_NoDoubleDestroy ==
  \A p \in DOMAIN user_tables : user_tables[p] <= 1

(***************************************************************************)
(* C23: after any sequence of CreateDatabase and DeleteDatabase calls no   *)
(* two rows of pg_database carry the same name.                            *)
(***************************************************************************)
C23_DatabaseNamesDistinct ==
  pc = "ready" =>
    \A j, k \in DOMAIN tables[pg_database_].rows :
      tables[pg_database_].rows[j][2].s = tables[pg_database_].rows[k][2].s => j = k

(***************************************************************************)
(* C24: every transaction the catalog begins (the constructor's and the    *)
(* one of DestroyDB) is committed or aborted through the transaction       *)
(* manager before its context is deleted, and none is left open once the   *)
(* operation that began it is over.                                        *)
(***************************************************************************)
C24_CatalogTxnsEnded ==
  \A k \in DOMAIN txns :
    /\ txns[k].state # "deleted_uncommitted"
    /\ (txns[k].state = "active" => (txns[k].by = "Bootstrap" /\ InBootstrap))

====
